---- MODULE Spec2Model ----
(***************************************************************************)
(* Model of scrapify.go: Scraper.Run, Scraper.runScraper and the two       *)
(* goroutines started by Scraper.getData (the job dispatcher and the       *)
(* result sink), with the extractor (IScraper) as a finite page graph.     *)
(*                                                                         *)
(* Goroutines are tasks with a program counter.  The channels s.jobs and   *)
(* s.ch are unbuffered (make(chan ...) without capacity), so a send and    *)
(* its receive are one joint step.  s.scrapedUrls is a bare Go map used    *)
(* without any lock: every access is a step of its own, and when two tasks *)
(* are both about to access it and one of them writes, the runtime may     *)
(* stop the process ("fatal error: concurrent map writes" / "concurrent    *)
(* map read and map write"), which is the step MapFault.                   *)
(***************************************************************************)
EXTENDS Naturals, Integers, Sequences, FiniteSets, TLC

\* -------------------------------------------------------------------------
\* Bounds
\* -------------------------------------------------------------------------
\* requestDelay ranges over 0..MaxDelay clock ticks
MaxDelay == 1

\* -------------------------------------------------------------------------
\* The extractor: page graphs (what GetUrls returns for each URL)
\* -------------------------------------------------------------------------
URLS == {"A", "B", "C", "D", "a", "b", "c"}

NoUrls == [u \in URLS |-> << >>]

\* A site is [strategy, items, next]: the seed list handed to NewScraper and
\* the two lists GetUrls returns for every URL.
Strat(sc, u) == [Scraper |-> sc, Url |-> u]

\* one page whose next page is itself
SiteSelfLoop ==
    [strategy |-> << Strat(1, "A") >>,
     items    |-> NoUrls,
     next     |-> [NoUrls EXCEPT !["A"] = << "A" >>]]

\* page A lists items a, b and next page B; page B lists item b again
SiteShared ==
    [strategy |-> << Strat(1, "A") >>,
     items    |-> [NoUrls EXCEPT !["A"] = << "a", "b" >>, !["B"] = << "b" >>],
     next     |-> [NoUrls EXCEPT !["A"] = << "B" >>]]

\* diamond: A -> B, C ; B -> D ; C -> D
SiteDiamond ==
    [strategy |-> << Strat(1, "A") >>,
     items    |-> NoUrls,
     next     |-> [NoUrls EXCEPT !["A"] = << "B", "C" >>, !["B"] = << "D" >>,
                                 !["C"] = << "D" >>]]

\* two strategies that share no URL, and each of them alone
SiteTwo ==
    [strategy |-> << Strat(1, "A"), Strat(2, "C") >>,
     items    |-> [NoUrls EXCEPT !["A"] = << "a" >>, !["C"] = << "c" >>],
     next     |-> NoUrls]

SiteTwoFirst == [SiteTwo EXCEPT !.strategy = << Strat(1, "A") >>]

SiteTwoSecond == [SiteTwo EXCEPT !.strategy = << Strat(2, "C") >>]

\* a URL that is both a page and an item
SitePageItem ==
    [strategy |-> << Strat(1, "A") >>,
     items    |-> [NoUrls EXCEPT !["A"] = << "B" >>],
     next     |-> [NoUrls EXCEPT !["A"] = << "B" >>]]

\* a second strategy whose page links to the first strategy's seed
SiteSeedLink ==
    [strategy |-> << Strat(1, "A"), Strat(2, "B") >>,
     items    |-> NoUrls,
     next     |-> [NoUrls EXCEPT !["B"] = << "A" >>]]

\* no strategy at all
SiteEmpty ==
    [strategy |-> << >>, items |-> NoUrls, next |-> NoUrls]

Sites ==
    { SiteSelfLoop, SiteShared, SiteDiamond, SiteTwo, SiteTwoFirst,
      SiteTwoSecond, SitePageItem, SiteSeedLink, SiteEmpty }

\* -------------------------------------------------------------------------
\* State
\* -------------------------------------------------------------------------
VARIABLES
    site,          \* the page graph and the strategies given to NewScraper
    requestDelay,  \* Scraper.requestDelay, in ticks
    honors,        \* TRUE: GetData gives up its send once ctx is cancelled
    cancelled,     \* ctx.Done() is closed
    crashed,       \* the runtime has stopped the process (fatal error)
    runPc,         \* position of Run
    seedIdx,       \* Run's loop index i over s.strategy
    wg,            \* s.wg counter
    jobsClosed,    \* close(s.jobs) executed
    chClosed,      \* close(s.ch) executed
    scrapedUrls,   \* keys of s.scrapedUrls
    walkers,       \* runScraper goroutines
    dispPc,        \* position of the dispatcher goroutine
    job,           \* the dispatcher's current job
    k,             \* the dispatcher's index into job.urls
    timer,         \* remaining ticks of the dispatcher's time.Sleep
    extr,          \* extraction goroutines
    sinkPc,        \* position of the sink goroutine
    sinkItem,      \* the item the sink holds (data of the range loop)
    \* history
    getUrlsCalls,  \* number of GetUrls calls per URL
    callbacks,     \* number of callback invocations per item URL
    elapsed,       \* ticks since the dispatcher's last launch
    lastGap,       \* ticks between the last two launches of one job, -1 if none
    lateSpawn,     \* a recursive walk was spawned after cancellation
    lateConsume    \* the sink received an item after cancellation

cfg == << site, requestDelay, honors >>

hist == << getUrlsCalls, callbacks, elapsed, lastGap, lateSpawn, lateConsume >>

vars == << site, requestDelay, honors, cancelled, crashed, runPc, seedIdx, wg,
           jobsClosed, chClosed, scrapedUrls, walkers, dispPc, job, k, timer,
           extr, sinkPc, sinkItem, getUrlsCalls, callbacks, elapsed,
           lastGap, lateSpawn, lateConsume >>

NoJob == [scraper |-> 0, urls |-> << >>]

NoItem == [scraper |-> 0, url |-> ""]

Init ==
    /\ site \in Sites
    /\ requestDelay \in 0..MaxDelay
    /\ honors \in BOOLEAN
    /\ cancelled = FALSE
    /\ crashed = FALSE
    /\ runPc = "add"
    /\ seedIdx = 1
    /\ wg = 0
    /\ jobsClosed = FALSE
    /\ chClosed = FALSE
    /\ scrapedUrls = {}
    /\ walkers = << >>
    /\ dispPc = "idle"
    /\ job = NoJob
    /\ k = 1
    /\ timer = 0
    /\ extr = << >>
    /\ sinkPc = "idle"
    /\ sinkItem = NoItem
    /\ getUrlsCalls = [u \in URLS |-> 0]
    /\ callbacks = [u \in URLS |-> 0]
    /\ elapsed = 0
    /\ lastGap = -1
    /\ lateSpawn = FALSE
    /\ lateConsume = FALSE

\* -------------------------------------------------------------------------
\* Helpers
\* -------------------------------------------------------------------------
Walker(sc, u, isRec) ==
    [url |-> u, scraper |-> sc, pc |-> "getUrls", urls |-> << >>,
     nextPages |-> << >>, i |-> 1, rec |-> isRec]

Extraction(sc, u) == [url |-> u, scraper |-> sc, pc |-> "check", claimed |-> FALSE,
     failed |-> FALSE, dones |-> 0]

\* item URLs with a GetData call that returned without pushing an item
noItem == { extr[i].url : i \in { j \in DOMAIN extr : extr[j].failed } }

\* position of a walker after it is through with nextPages[i - 1]
LoopPc(w, i) == IF i > Len(w.nextPages) THEN "done" ELSE "check"

\* tasks whose next step reads / writes the map s.scrapedUrls
MapReaders ==
    { << "w", i >> : i \in { j \in DOMAIN walkers : walkers[j].pc = "check" } }
      \cup { << "e", i >> : i \in { j \in DOMAIN extr : extr[j].pc = "check" } }

MapWriters ==
    { << "w", i >> : i \in { j \in DOMAIN walkers : walkers[j].pc \in {"mark", "claim"} } }
      \cup { << "e", i >> : i \in { j \in DOMAIN extr : extr[j].pc = "mark" } }

\* two unsynchronized accesses to the map, one of them a write
MapRace ==
    \E t1 \in MapWriters : \E t2 \in MapWriters \cup MapReaders : t1 # t2

\* -------------------------------------------------------------------------
\* Run (lines 130-149)
\* -------------------------------------------------------------------------
\* s.wg.Add(len(s.strategy))
RunAdd ==
    /\ ~crashed /\ runPc = "add"
    /\ wg' = wg + Len(site.strategy)
    /\ runPc' = "getData"
    /\ UNCHANGED << cfg, hist, cancelled, crashed, seedIdx, jobsClosed, chClosed,
                    scrapedUrls, walkers, dispPc, job, k, timer, extr, sinkPc, sinkItem >>

\* s.getData(ctx): starts the dispatcher and the sink goroutine
RunGetData ==
    /\ ~crashed /\ runPc = "getData"
    /\ dispPc' = "recv"
    /\ sinkPc' = "select"
    /\ runPc' = IF Len(site.strategy) = 0 THEN "wait" ELSE "spawn"
    /\ UNCHANGED << cfg, hist, cancelled, crashed, seedIdx, wg, jobsClosed, chClosed,
                    scrapedUrls, walkers, job, k, timer, extr, sinkItem >>

\* a loop over s.strategy that stops after its first element
RunLoopPcFirstOnly(i) == "wait"

\* for i := range s.strategy: position of Run after the i-th iteration
RunLoopPc(i) == IF i = Len(site.strategy) THEN "wait" ELSE "spawn"

\* go s.runScraper(ctx, strategy) for s.strategy[i]
RunSpawn ==
    /\ ~crashed /\ runPc = "spawn"
    /\ walkers' = Append(walkers, Walker(site.strategy[seedIdx].Scraper,
                                         site.strategy[seedIdx].Url, FALSE))
    /\ seedIdx' = seedIdx + 1
    /\ runPc' = RunLoopPc(seedIdx)
    /\ UNCHANGED << cfg, hist, cancelled, crashed, wg, jobsClosed, chClosed,
                    scrapedUrls, dispPc, job, k, timer, extr, sinkPc, sinkItem >>

\* a Wait that does not wait for the counter
WaitReleasedEarly == TRUE

\* s.wg.Wait() blocks until the counter is zero
WaitReleased == wg = 0

\* s.wg.Wait() returns
RunWait ==
    /\ ~crashed /\ runPc = "wait"
    /\ WaitReleased
    /\ runPc' = "closeJobs"
    /\ UNCHANGED << cfg, hist, cancelled, crashed, seedIdx, wg, jobsClosed, chClosed,
                    scrapedUrls, walkers, dispPc, job, k, timer, extr, sinkPc, sinkItem >>

\* close(s.jobs)
RunCloseJobs ==
    /\ ~crashed /\ runPc = "closeJobs"
    /\ jobsClosed' = TRUE
    /\ runPc' = "closeCh"
    /\ UNCHANGED << cfg, hist, cancelled, crashed, seedIdx, wg, chClosed,
                    scrapedUrls, walkers, dispPc, job, k, timer, extr, sinkPc, sinkItem >>

\* a Run that returns without closing s.ch
RunCloseChForgot ==
    /\ ~crashed /\ runPc = "closeCh"
    /\ runPc' = "done"
    /\ UNCHANGED << cfg, hist, cancelled, crashed, seedIdx, wg, jobsClosed, chClosed,
                    scrapedUrls, walkers, dispPc, job, k, timer, extr, sinkPc, sinkItem >>

\* close(s.ch); Run returns
RunCloseCh ==
    /\ ~crashed /\ runPc = "closeCh"
    /\ chClosed' = TRUE
    /\ runPc' = "done"
    /\ UNCHANGED << cfg, hist, cancelled, crashed, seedIdx, wg, jobsClosed,
                    scrapedUrls, walkers, dispPc, job, k, timer, extr, sinkPc, sinkItem >>

\* -------------------------------------------------------------------------
\* runScraper (lines 102-126)
\* -------------------------------------------------------------------------
\* urls, nextPages := strategy.Scraper.GetUrls(ctx, strategy.Url)
\* Once ctx is cancelled the extractor may return its lists or nothing.
WalkerGetUrls(i) ==
    /\ ~crashed /\ walkers[i].pc = "getUrls"
    /\ \E full \in (IF cancelled THEN BOOLEAN ELSE {TRUE}) :
          walkers' = [walkers EXCEPT
              ![i].urls = IF full THEN site.items[walkers[i].url] ELSE << >>,
              ![i].nextPages = IF full THEN site.next[walkers[i].url] ELSE << >>,
              ![i].pc = "mark"]
    /\ getUrlsCalls' = [getUrlsCalls EXCEPT ![walkers[i].url] = @ + 1]
    /\ UNCHANGED << cfg, cancelled, crashed, runPc, seedIdx, wg, jobsClosed, chClosed,
                    scrapedUrls, dispPc, job, k, timer, extr, sinkPc, sinkItem,
                    callbacks, elapsed, lastGap, lateSpawn, lateConsume >>

\* s.scrapedUrls[strategy.Url] = true
WalkerMark(i) ==
    /\ ~crashed /\ walkers[i].pc = "mark"
    /\ scrapedUrls' = scrapedUrls \cup {walkers[i].url}
    /\ walkers' = [walkers EXCEPT ![i].pc = "add"]
    /\ UNCHANGED << cfg, hist, cancelled, crashed, runPc, seedIdx, wg, jobsClosed,
                    chClosed, dispPc, job, k, timer, extr, sinkPc, sinkItem >>

\* a walker that registers no unit for its item URLs
JobUnitsNone(w) == 1

\* s.wg.Add(len(urls)); s.wg.Add(1): the units a walker adds for its job
JobUnits(w) == Len(w.urls) + 1

\* s.wg.Add(len(urls)); s.wg.Add(1)
WalkerAdd(i) ==
    /\ ~crashed /\ walkers[i].pc = "add"
    /\ wg' = wg + JobUnits(walkers[i])
    /\ walkers' = [walkers EXCEPT ![i].pc = "send"]
    /\ UNCHANGED << cfg, hist, cancelled, crashed, runPc, seedIdx, jobsClosed,
                    chClosed, scrapedUrls, dispPc, job, k, timer, extr, sinkPc, sinkItem >>

\* s.jobs <- ScraperJob{...} meets  job := range s.jobs  in the dispatcher
WalkerSendJob(i) ==
    /\ ~crashed /\ walkers[i].pc = "send"
    /\ dispPc = "recv" /\ ~jobsClosed
    /\ job' = [scraper |-> walkers[i].scraper, urls |-> walkers[i].urls]
    /\ k' = 1
    /\ dispPc' = IF Len(walkers[i].urls) = 0 THEN "recv" ELSE "launch"
    /\ walkers' = [walkers EXCEPT ![i].pc = LoopPc(walkers[i], 1)]
    /\ UNCHANGED << cfg, hist, cancelled, crashed, runPc, seedIdx, wg, jobsClosed,
                    chClosed, scrapedUrls, timer, extr, sinkPc, sinkItem >>

\* a lookup that never finds the key
IsScrapedNever(u) == FALSE

\* _, ok := s.scrapedUrls[u]
IsScraped(u) == u \in scrapedUrls

\* if _, ok := s.scrapedUrls[newUrl]; ok { continue }
WalkerCheck(i) ==
    /\ ~crashed /\ walkers[i].pc = "check"
    /\ LET w == walkers[i]
       IN  walkers' = IF IsScraped(w.nextPages[w.i])
                      THEN [walkers EXCEPT ![i].i = w.i + 1,
                                           ![i].pc = LoopPc(w, w.i + 1)]
                      ELSE [walkers EXCEPT ![i].pc = "addWalk"]
    /\ UNCHANGED << cfg, hist, cancelled, crashed, runPc, seedIdx, wg, jobsClosed,
                    chClosed, scrapedUrls, dispPc, job, k, timer, extr, sinkPc, sinkItem >>

\* s.wg.Add(1)
WalkerAddWalk(i) ==
    /\ ~crashed /\ walkers[i].pc = "addWalk"
    /\ wg' = wg + 1
    /\ walkers' = [walkers EXCEPT ![i].pc = "claim"]
    /\ UNCHANGED << cfg, hist, cancelled, crashed, runPc, seedIdx, jobsClosed,
                    chClosed, scrapedUrls, dispPc, job, k, timer, extr, sinkPc, sinkItem >>

\* s.scrapedUrls[newUrl] = true
WalkerClaim(i) ==
    /\ ~crashed /\ walkers[i].pc = "claim"
    /\ scrapedUrls' = scrapedUrls \cup {walkers[i].nextPages[walkers[i].i]}
    /\ walkers' = [walkers EXCEPT ![i].pc = "spawn"]
    /\ UNCHANGED << cfg, hist, cancelled, crashed, runPc, seedIdx, wg, jobsClosed,
                    chClosed, dispPc, job, k, timer, extr, sinkPc, sinkItem >>

\* go s.runScraper(ctx, ScraperStrategy{Scraper: strategy.Scraper, Url: newUrl})
WalkerSpawn(i) ==
    /\ ~crashed /\ walkers[i].pc = "spawn"
    /\ LET w == walkers[i]
       IN  walkers' = Append([walkers EXCEPT ![i].i = w.i + 1,
                                             ![i].pc = LoopPc(w, w.i + 1)],
                             Walker(w.scraper, w.nextPages[w.i], TRUE))
    /\ lateSpawn' = (lateSpawn \/ cancelled)
    /\ UNCHANGED << cfg, cancelled, crashed, runPc, seedIdx, wg, jobsClosed, chClosed,
                    scrapedUrls, dispPc, job, k, timer, extr, sinkPc, sinkItem,
                    getUrlsCalls, callbacks, elapsed, lastGap, lateConsume >>

\* defer s.wg.Done()
WalkerDone(i) ==
    /\ ~crashed /\ walkers[i].pc = "done"
    /\ wg' = wg - 1
    /\ walkers' = [walkers EXCEPT ![i].pc = "finished"]
    /\ UNCHANGED << cfg, hist, cancelled, crashed, runPc, seedIdx, jobsClosed,
                    chClosed, scrapedUrls, dispPc, job, k, timer, extr, sinkPc, sinkItem >>

\* -------------------------------------------------------------------------
\* getData: the dispatcher goroutine (lines 61-85)
\* -------------------------------------------------------------------------
\* position of the dispatcher once it is through with job.urls[j - 1]
DispPc(j) == IF j > Len(job.urls) THEN "recv" ELSE "launch"

\* a sleep that is one tick short
SleepTicksShort(d) == d - 1

\* time.Sleep(s.requestDelay): the number of ticks the dispatcher sleeps
SleepTicks(d) == d

\* go func(url string) {...}(url), then  if s.requestDelay > 0
DispLaunch ==
    /\ ~crashed /\ dispPc = "launch"
    /\ extr' = Append(extr, Extraction(job.scraper, job.urls[k]))
    /\ lastGap' = IF k > 1 THEN elapsed ELSE lastGap
    /\ elapsed' = 0
    /\ IF requestDelay > 0
       THEN /\ dispPc' = "sleep"
            /\ timer' = SleepTicks(requestDelay)
            /\ k' = k
       ELSE /\ dispPc' = DispPc(k + 1)
            /\ timer' = timer
            /\ k' = k + 1
    /\ UNCHANGED << cfg, cancelled, crashed, runPc, seedIdx, wg, jobsClosed, chClosed,
                    scrapedUrls, walkers, job, sinkPc, sinkItem,
                    getUrlsCalls, callbacks, lateSpawn, lateConsume >>

\* one tick of the clock while the dispatcher is inside time.Sleep
Tick ==
    /\ ~crashed /\ dispPc = "sleep" /\ timer > 0
    /\ timer' = timer - 1
    /\ elapsed' = elapsed + 1
    /\ UNCHANGED << cfg, cancelled, crashed, runPc, seedIdx, wg, jobsClosed, chClosed,
                    scrapedUrls, walkers, dispPc, job, k, extr, sinkPc, sinkItem,
                    getUrlsCalls, callbacks, lastGap, lateSpawn, lateConsume >>

\* time.Sleep returns; next url of the job, or back to  range s.jobs
DispWake ==
    /\ ~crashed /\ dispPc = "sleep" /\ timer = 0
    /\ dispPc' = DispPc(k + 1)
    /\ k' = k + 1
    /\ UNCHANGED << cfg, hist, cancelled, crashed, runPc, seedIdx, wg, jobsClosed,
                    chClosed, scrapedUrls, walkers, job, timer, extr, sinkPc, sinkItem >>

\* range s.jobs ends because the channel is closed
DispExit ==
    /\ ~crashed /\ dispPc = "recv" /\ jobsClosed
    /\ dispPc' = "exit"
    /\ UNCHANGED << cfg, hist, cancelled, crashed, runPc, seedIdx, wg, jobsClosed,
                    chClosed, scrapedUrls, walkers, job, k, timer, extr, sinkPc, sinkItem >>

\* -------------------------------------------------------------------------
\* getData: one extraction goroutine (lines 64-77)
\* -------------------------------------------------------------------------
\* a failed extraction that returns without reaching wg.Done
FailPcLeak == "finished"

\* where an extraction goes when GetData has returned without an item
FailPc == "mark"

\* where an extraction goes when it finds its url in the map
SkipPc == "done"

\* if _, ok := s.scrapedUrls[url]; ok { return }
ExtrCheck(i) ==
    /\ ~crashed /\ extr[i].pc = "check"
    /\ extr' = IF extr[i].url \in scrapedUrls
               THEN [extr EXCEPT ![i].pc = SkipPc]
               ELSE [extr EXCEPT ![i].pc = "getData", ![i].claimed = TRUE]
    /\ UNCHANGED << cfg, hist, cancelled, crashed, runPc, seedIdx, wg, jobsClosed,
                    chClosed, scrapedUrls, walkers, dispPc, job, k, timer, sinkPc, sinkItem >>

\* job.scraper.GetData(ctx, s.ch, &data, url): the extractor either starts
\* to push one item on s.ch or returns without one
ExtrGetData(i) ==
    /\ ~crashed /\ extr[i].pc = "getData"
    /\ \/ extr' = [extr EXCEPT ![i].pc = "push"]
       \/ extr' = [extr EXCEPT ![i].pc = FailPc, ![i].failed = TRUE]
    /\ UNCHANGED << cfg, cancelled, crashed, runPc, seedIdx, wg, jobsClosed, chClosed,
                    scrapedUrls, walkers, dispPc, job, k, timer, sinkPc, sinkItem,
                    getUrlsCalls, callbacks, elapsed, lastGap, lateSpawn, lateConsume >>

\* ch <- data  inside GetData meets  data := range s.ch  in the sink
ExtrPush(i) ==
    /\ ~crashed /\ extr[i].pc = "push"
    /\ sinkPc = "range" /\ ~chClosed
    /\ sinkItem' = [scraper |-> extr[i].scraper, url |-> extr[i].url]
    /\ sinkPc' = "callback"
    /\ extr' = [extr EXCEPT ![i].pc = "mark"]
    /\ lateConsume' = (lateConsume \/ cancelled)
    /\ UNCHANGED << cfg, cancelled, crashed, runPc, seedIdx, wg, jobsClosed, chClosed,
                    scrapedUrls, walkers, dispPc, job, k, timer,
                    getUrlsCalls, callbacks, elapsed, lastGap, lateSpawn >>

\* an extractor that honors ctx leaves its blocked send once ctx is cancelled
ExtrAbort(i) ==
    /\ ~crashed /\ extr[i].pc = "push"
    /\ cancelled /\ honors
    /\ extr' = [extr EXCEPT ![i].pc = FailPc, ![i].failed = TRUE]
    /\ UNCHANGED << cfg, cancelled, crashed, runPc, seedIdx, wg, jobsClosed, chClosed,
                    scrapedUrls, walkers, dispPc, job, k, timer, sinkPc, sinkItem,
                    getUrlsCalls, callbacks, elapsed, lastGap, lateSpawn, lateConsume >>

\* s.scrapedUrls[url] = true
ExtrMark(i) ==
    /\ ~crashed /\ extr[i].pc = "mark"
    /\ scrapedUrls' = scrapedUrls \cup {extr[i].url}
    /\ extr' = [extr EXCEPT ![i].pc = "done"]
    /\ UNCHANGED << cfg, hist, cancelled, crashed, runPc, seedIdx, wg, jobsClosed,
                    chClosed, walkers, dispPc, job, k, timer, sinkPc, sinkItem >>

\* defer s.wg.Done()
ExtrDone(i) ==
    /\ ~crashed /\ extr[i].pc = "done"
    /\ wg' = wg - 1
    /\ extr' = [extr EXCEPT ![i].pc = "finished", ![i].dones = @ + 1]
    /\ UNCHANGED << cfg, hist, cancelled, crashed, runPc, seedIdx, jobsClosed,
                    chClosed, scrapedUrls, walkers, dispPc, job, k, timer, sinkPc, sinkItem >>

\* -------------------------------------------------------------------------
\* getData: the sink goroutine (lines 87-97)
\* -------------------------------------------------------------------------
\* select { case <-ctx.Done(): return; default: for data := range s.ch ... }
SinkSelect ==
    /\ ~crashed /\ sinkPc = "select"
    /\ sinkPc' = IF cancelled THEN "exit" ELSE "range"
    /\ UNCHANGED << cfg, hist, cancelled, crashed, runPc, seedIdx, wg, jobsClosed,
                    chClosed, scrapedUrls, walkers, dispPc, job, k, timer, extr, sinkItem >>

\* a sink that invokes the callback twice for one item
SinkCallbackTwice ==
    /\ ~crashed /\ sinkPc = "callback"
    /\ callbacks' = [callbacks EXCEPT ![sinkItem.url] = @ + 2]
    /\ sinkItem' = NoItem
    /\ sinkPc' = "range"
    /\ UNCHANGED << cfg, cancelled, crashed, runPc, seedIdx, wg, jobsClosed, chClosed,
                    scrapedUrls, walkers, dispPc, job, k, timer, extr,
                    getUrlsCalls, elapsed, lastGap, lateSpawn, lateConsume >>

\* s.callback(data), then back to  range s.ch
SinkCallback ==
    /\ ~crashed /\ sinkPc = "callback"
    /\ callbacks' = [callbacks EXCEPT ![sinkItem.url] = @ + 1]
    /\ sinkItem' = NoItem
    /\ sinkPc' = "range"
    /\ UNCHANGED << cfg, cancelled, crashed, runPc, seedIdx, wg, jobsClosed, chClosed,
                    scrapedUrls, walkers, dispPc, job, k, timer, extr,
                    getUrlsCalls, elapsed, lastGap, lateSpawn, lateConsume >>

\* range s.ch ends because the channel is closed
SinkExit ==
    /\ ~crashed /\ sinkPc = "range" /\ chClosed
    /\ sinkPc' = "exit"
    /\ UNCHANGED << cfg, hist, cancelled, crashed, runPc, seedIdx, wg, jobsClosed,
                    chClosed, scrapedUrls, walkers, dispPc, job, k, timer, extr, sinkItem >>

\* -------------------------------------------------------------------------
\* Environment
\* -------------------------------------------------------------------------
\* the caller cancels ctx
Cancel ==
    /\ ~crashed /\ ~cancelled
    /\ cancelled' = TRUE
    /\ UNCHANGED << cfg, hist, crashed, runPc, seedIdx, wg, jobsClosed, chClosed,
                    scrapedUrls, walkers, dispPc, job, k, timer, extr, sinkPc, sinkItem >>

\* the runtime detects the concurrent map access and stops the process
MapFault ==
    /\ ~crashed /\ MapRace
    /\ crashed' = TRUE
    /\ UNCHANGED << cfg, hist, cancelled, runPc, seedIdx, wg, jobsClosed, chClosed,
                    scrapedUrls, walkers, dispPc, job, k, timer, extr, sinkPc, sinkItem >>

\* every step of the program itself (all but the caller's Cancel)
Step ==
    \/ RunAdd
    \/ RunGetData
    \/ RunSpawn
    \/ RunWait
    \/ RunCloseJobs
    \/ RunCloseCh
    \/ \E i \in DOMAIN walkers : WalkerGetUrls(i)
    \/ \E i \in DOMAIN walkers : WalkerMark(i)
    \/ \E i \in DOMAIN walkers : WalkerAdd(i)
    \/ \E i \in DOMAIN walkers : WalkerSendJob(i)
    \/ \E i \in DOMAIN walkers : WalkerCheck(i)
    \/ \E i \in DOMAIN walkers : WalkerAddWalk(i)
    \/ \E i \in DOMAIN walkers : WalkerClaim(i)
    \/ \E i \in DOMAIN walkers : WalkerSpawn(i)
    \/ \E i \in DOMAIN walkers : WalkerDone(i)
    \/ DispLaunch
    \/ Tick
    \/ DispWake
    \/ DispExit
    \/ \E i \in DOMAIN extr : ExtrCheck(i)
    \/ \E i \in DOMAIN extr : ExtrGetData(i)
    \/ \E i \in DOMAIN extr : ExtrPush(i)
    \/ \E i \in DOMAIN extr : ExtrAbort(i)
    \/ \E i \in DOMAIN extr : ExtrMark(i)
    \/ \E i \in DOMAIN extr : ExtrDone(i)
    \/ SinkSelect
    \/ SinkCallback
    \/ SinkExit
    \/ MapFault

Next == Step \/ Cancel

Spec == Init /\ [][Next]_vars

TypeOK ==
    /\ wg \in Nat
    /\ scrapedUrls \subseteq URLS

\* -------------------------------------------------------------------------
\* Derived notions used by the properties
\* -------------------------------------------------------------------------
Range(f) == { f[i] : i \in DOMAIN f }

\* the program can take no further step
Stuck == ~ENABLED Step

\* item URLs some walker has obtained from GetUrls
DiscoveredItems == UNION { Range(walkers[i].urls) : i \in DOMAIN walkers }

\* URLs some walker was started for
WalkedPages == { walkers[i].url : i \in DOMAIN walkers }

\* item URLs the callback has been invoked for
Delivered == { u \in URLS : callbacks[u] > 0 }

\* -------------------------------------------------------------------------
\* Properties
\* -------------------------------------------------------------------------
\* C1: with ctx never cancelled, Run returns: the program does not come to
\* rest (no step left to take) while Run has not returned.  Runs that the
\* runtime stopped with a fatal error are left aside here.
C1RunReturns == (~cancelled /\ ~crashed /\ Stuck) => runPc = "done"

\* C2: when every GetData call pushes its item, the callback is invoked
\* exactly once per discovered item URL: never twice, and once the program
\* has come to rest with ctx not cancelled, once for each of them (item URLs
\* that are also walked as pages are left aside here).
C2ExactlyOnce ==
    (noItem = {}) =>
        /\ \A u \in URLS : callbacks[u] <= 1
        /\ (Stuck /\ ~cancelled /\ ~crashed) =>
               \A u \in DiscoveredItems \ WalkedPages : callbacks[u] = 1

\* C3: GetUrls is called at most once per URL.
C3DiscoverOnce == \A u \in URLS : getUrlsCalls[u] <= 1

\* C5: once ctx is cancelled and the extractor honors it, Run returns: the
\* program does not come to rest while Run has not returned, and no task is
\* left blocked on s.jobs or s.ch.  Runs that the runtime stopped with a
\* fatal error are left aside here.
C5CancelReturns ==
    (cancelled /\ honors /\ ~crashed /\ Stuck) =>
        /\ runPc = "done"
        /\ \A i \in DOMAIN walkers : walkers[i].pc # "send"
        /\ \A i \in DOMAIN extr : extr[i].pc # "push"

\* C6: the sink receives no item once ctx has been cancelled.
C6SinkStops == ~lateConsume

\* C7: no recursive walk is spawned once ctx has been cancelled.
C7NoSpawnAfterCancel == ~lateSpawn

\* C8: an extraction whose GetData call returned without an item calls
\* wg.Done exactly once (never twice, and once when it has finished), is not
\* left blocked, and holds nothing back: once the program has come to rest
\* with ctx not cancelled, every extraction has finished and every item URL
\* without a failed call (and not walked as a page) has reached the callback.
C8FailedReleases ==
    /\ \A i \in DOMAIN extr :
          extr[i].failed =>
              /\ extr[i].dones <= 1
              /\ extr[i].pc \in {"mark", "done", "finished"}
              /\ extr[i].pc = "finished" => extr[i].dones = 1
    /\ (Stuck /\ ~crashed /\ ~cancelled) =>
          /\ \A i \in DOMAIN extr : extr[i].pc = "finished" /\ extr[i].dones = 1
          /\ \A u \in (DiscoveredItems \ WalkedPages) \ noItem : callbacks[u] >= 1

\* a failed extraction has finished and released its unit, and a later
\* extraction of the same job has delivered its item
C8Witness ==
    /\ site = SiteShared /\ ~cancelled /\ Len(extr) >= 2
    /\ extr[1].failed /\ extr[1].pc = "finished" /\ extr[1].dones = 1
    /\ ~extr[2].failed /\ callbacks[extr[2].url] = 1

\* C9: with requestDelay > 0 the dispatcher launches the next extraction of
\* a job only after requestDelay ticks have passed since the previous launch.
C9DelayBetweenLaunches ==
    requestDelay > 0 =>
        /\ lastGap = -1 \/ lastGap >= requestDelay
        /\ (dispPc = "launch" /\ k > 1) => elapsed >= requestDelay

\* the second extraction of a job was launched a full delay after the first,
\* and the first one has run to its end while the dispatcher is asleep again
C9Witness ==
    /\ requestDelay > 0 /\ k = 2 /\ lastGap = requestDelay
    /\ dispPc = "sleep" /\ timer > 0
    /\ extr[1].pc = "finished" /\ extr[2].pc = "finished"

\* pages reachable from a set of pages by next-page links
RECURSIVE Reach(_, _)
Reach(S, n) ==
    IF n = 0 THEN S
    ELSE Reach(S \cup UNION { Range(site.next[p]) : p \in S }, n - 1)

\* what a Run over the one strategy st is to deliver: the items of its pages
ItemsOf(st) ==
    UNION { Range(site.items[p]) : p \in Reach({st.Url}, Cardinality(URLS)) }

UrlsOf(st) == Reach({st.Url}, Cardinality(URLS)) \cup ItemsOf(st)

\* no two strategies of the site share a URL
ShareNoUrl ==
    \A i, j \in DOMAIN site.strategy :
        i # j => UrlsOf(site.strategy[i]) \cap UrlsOf(site.strategy[j]) = {}

WalkClaims(u) ==
    Cardinality({ i \in DOMAIN walkers : walkers[i].rec /\ walkers[i].url = u })
      + Cardinality({ i \in DOMAIN walkers :
                        /\ walkers[i].pc \in {"addWalk", "claim", "spawn"}
                        /\ walkers[i].nextPages[walkers[i].i] = u })

\* number of extractions that looked up the item URL u (line 68), found it
\* absent and went on to GetData
ItemClaims(u) ==
    Cardinality({ i \in DOMAIN extr : extr[i].claimed /\ extr[i].url = u })

\* C11: of the walkers that claim one next-page URL at most one finds it
\* absent from the Visited Set and proceeds, and likewise of the extractions
\* that claim one item URL.
C11OneClaimer == \A u \in URLS : WalkClaims(u) <= 1 /\ ItemClaims(u) <= 1

\* C12: no two tasks are about to access s.scrapedUrls at the same time with
\* one of them writing.
C12NoRace == ~MapRace

\* a send on s.jobs / s.ch is still to come from some task
JobSendAhead ==
    \/ runPc \in {"add", "getData", "spawn"} /\ Len(site.strategy) > 0
    \/ \E i \in DOMAIN walkers : walkers[i].pc \notin {"done", "finished"}

ItemSendAhead ==
    \/ JobSendAhead
    \/ dispPc \in {"launch", "sleep"}
    \/ \E i \in DOMAIN extr : extr[i].pc \in {"check", "getData", "push"}

AllFinished ==
    /\ runPc = "wait" /\ dispPc = "recv"
    /\ \A i \in DOMAIN walkers : walkers[i].pc = "finished"
    /\ \A i \in DOMAIN extr : extr[i].pc = "finished"

\* C14: once all walks and extractions of a Run with at least one strategy
\* have finished, every unit added to the counter has been released: the
\* counter is zero.
C14CounterReturnsToZero ==
    (Len(site.strategy) > 0 /\ AllFinished) => wg = 0

\* walks and extractions that are registered and not finished: walks not yet
\* spawned by Run, running walks, item URLs of a job not yet sent or not yet
\* launched, running extractions
Outstanding ==
    (IF runPc \in {"getData", "spawn"} THEN Len(site.strategy) - (seedIdx - 1) ELSE 0)
      + Cardinality({ i \in DOMAIN walkers : walkers[i].pc # "finished" })
      + Cardinality({ i \in DOMAIN walkers : walkers[i].pc \in {"claim", "spawn"} })
      + Cardinality({ << i, j >> \in (DOMAIN walkers) \X (1..Cardinality(URLS)) :
                        walkers[i].pc = "send" /\ j <= Len(walkers[i].urls) })
      + (IF dispPc = "launch" THEN Len(job.urls) - (k - 1)
         ELSE IF dispPc = "sleep" THEN Len(job.urls) - k ELSE 0)
      + Cardinality({ i \in DOMAIN extr : extr[i].pc # "finished" })

\* C15: the counter is never negative and never below the number of
\* registered walks and extractions that have not finished.
C15CounterCoversWork == wg >= 0 /\ wg >= Outstanding

\* a walker is about to send a job of two item URLs, all of them counted
C15Witness ==
    /\ \E i \in DOMAIN walkers :
          walkers[i].pc = "send" /\ Len(walkers[i].urls) = 2
    /\ Outstanding >= 3 /\ wg >= Outstanding

\* C16: every seed URL is in the Visited Set before the first GetUrls call
\* of the Run.
C16SeedsMarkedFirst ==
    (\E u \in URLS : getUrlsCalls[u] > 0) =>
        \A i \in DOMAIN site.strategy : site.strategy[i].Url \in scrapedUrls

\* C17: a URL that was claimed as a page and is also listed as an item is
\* still extracted and delivered: once the program has come to rest (ctx not
\* cancelled, no failed GetData call) every discovered item URL has reached
\* the callback.
C17PageItemDelivered ==
    (Stuck /\ ~crashed /\ ~cancelled /\ noItem = {}) =>
        \A u \in DiscoveredItems : callbacks[u] >= 1

\* number of items pushed on s.ch for the item URL u
PushedCount(u) ==
    Cardinality({ i \in DOMAIN extr :
                    /\ extr[i].url = u /\ extr[i].claimed /\ ~extr[i].failed
                    /\ extr[i].pc \in {"mark", "done", "finished"} })

\* C18: the sink holds at most one item, the one whose callback is due, and
\* every item pushed on s.ch has had exactly one callback invocation except
\* the one the sink holds: no callback without a push, none twice, and no
\* receive before the previous callback has returned.
C18OneCallbackPerItem ==
    /\ sinkPc = "callback" <=> sinkItem # NoItem
    /\ \A u \in URLS :
          PushedCount(u) =
              callbacks[u] + (IF sinkPc = "callback" /\ sinkItem.url = u THEN 1 ELSE 0)

\* two items were pushed one after the other, each with its callback
C18Witness ==
    /\ ~cancelled /\ sinkPc = "range"
    /\ PushedCount("a") = 1 /\ callbacks["a"] = 1
    /\ PushedCount("b") = 2 /\ callbacks["b"] = 2

\* C19: a walker that examines a next-page URL which is its own URL or is
\* already in the Visited Set moves on to the next one in that very step:
\* no unit is added to the counter and no walk task is created.
C19Pruned ==
    [][\A i \in DOMAIN walkers :
          ( /\ walkers[i].pc = "check"
            /\ \/ walkers[i].nextPages[walkers[i].i] \in scrapedUrls
               \/ walkers[i].nextPages[walkers[i].i] = walkers[i].url
            /\ walkers'[i] # walkers[i] )
          => /\ wg' = wg
             /\ Len(walkers') = Len(walkers)
             /\ walkers'[i].i = walkers[i].i + 1
             /\ walkers'[i].pc \in {"check", "done"}]_vars

\* the walker of the self-loop page is through with its next pages and is
\* still the only walker
C19Witness ==
    /\ site = SiteSelfLoop /\ Len(walkers) = 1
    /\ walkers[1].i = 2 /\ walkers[1].pc \in {"done", "finished"}
    /\ wg <= 2

\* C20: with no strategy there is no GetUrls call, no extraction and no
\* callback; when Run has returned both channels are closed; and when the
\* program has come to rest Run has returned and the dispatcher and the sink
\* have ended.
C20EmptyRun ==
    Len(site.strategy) = 0 =>
        /\ \A u \in URLS : getUrlsCalls[u] = 0 /\ callbacks[u] = 0
        /\ walkers = << >> /\ extr = << >>
        /\ runPc = "done" => jobsClosed /\ chClosed
        /\ Stuck => runPc = "done" /\ dispPc = "exit" /\ sinkPc = "exit"

\* the Run over no strategy has returned and both goroutines have ended
C20Witness ==
    /\ Len(site.strategy) = 0 /\ runPc = "done" /\ jobsClosed /\ chClosed
    /\ dispPc = "exit" /\ sinkPc = "exit" /\ Stuck

====
